---------------------------- MODULE Spec2Model ----------------------------
(***************************************************************************)
(* Data pipeline of End-to-End-Mandarin-ASR (data.py) and the evaluation   *)
(* entry point (eval.py).                                                  *)
(*                                                                         *)
(* A Python string is a sequence of one-character strings, a token is a    *)
(* Python string, a tensor is a sequence of rows, a row a sequence of      *)
(* numbers.  Python indices are 0-based; a vocabulary index i names the    *)
(* element i+1 of the TLA+ sequence index_to_token.                        *)
(***************************************************************************)
EXTENDS Integers, Sequences, FiniteSets, TLC

VARIABLES root, loaded, codec, collate, epoch, proc

vars == <<root, loaded, codec, collate, epoch, proc>>

(***************************************************************************)
(* Bounds of the model.                                                    *)
(***************************************************************************)
MaxRep == 6
MaxFrames == 9
MaxN == 3
MaxLoaderN == 3
MaxB == 2
MaxWorkers == 2
MaxEpochNo == 3
MaxPer == 2

(***************************************************************************)
(* Constants of the program.                                               *)
(***************************************************************************)
MinOccurrences == 5
NumFeatures == 80
StackFactor == 3
PaddingIndex == 0
UnknownIndex == 1
EosIndex == 2
BucketSizeMultiplier == 100
PrefetchFactor == 2

Splits == {"train", "dev", "test"}

(***************************************************************************)
(* Generic helpers on sequences.                                           *)
(***************************************************************************)
Range(s) == {s[i] : i \in DOMAIN s}

Min(a, b) == IF a <= b THEN a ELSE b

RECURSIVE MaxOf(_)
MaxOf(s) == IF s = <<>> THEN 0
            ELSE LET m == MaxOf(Tail(s)) IN IF Head(s) >= m THEN Head(s) ELSE m

RECURSIVE Concat(_)
Concat(ss) == IF ss = <<>> THEN <<>> ELSE Head(ss) \o Concat(Tail(ss))

Repeat(x, n) == [i \in 1..n |-> x]

Perms(S) == {f \in [1..Cardinality(S) -> S] : \A x \in S : \E i \in DOMAIN f : f[i] = x}

(***************************************************************************)
(* Python strings.                                                         *)
(***************************************************************************)
PAD == <<"<", "p", "a", "d", ">">>
UNK == <<"<", "u", "n", "k", ">">>
EOS == <<"<", "/", "s", ">">>
SOS == <<"<", "s", ">">>

\* ' '.join(tokens): torchnlp's default detokenize
RECURSIVE JoinSpace(_)
JoinSpace(tokens) ==
    IF tokens = <<>> THEN <<>>
    ELSE IF Len(tokens) = 1 THEN tokens[1]
    ELSE tokens[1] \o <<" ">> \o JoinSpace(Tail(tokens))

(***************************************************************************)
(* StaticTokenizerEncoder(sample, tokenize, min_occurrences=5,             *)
(*                        append_eos=True, reserved_tokens=[...])          *)
(***************************************************************************)
ReservedTokens == <<PAD, UNK, EOS>>

\* tokenize=lambda s: ['<s>'] + list(s)
Tokenize(s) == <<SOS>> \o [i \in 1..Len(s) |-> <<s[i]>>]

\* self.tokens = Counter(); for sequence in sample:
\*     self.tokens.update(self.tokenize(sequence))
\* A Counter is a dict: its keys come in the order of their first occurrence.
CountTokens(sample) ==
    LET flat == Concat([i \in 1..Len(sample) |-> Tokenize(sample[i])])
        first(i) == \A j \in 1..(i - 1) : flat[j] # flat[i]
        firsts == SelectSeq([i \in 1..Len(flat) |-> i], first)
    IN [order |-> [k \in 1..Len(firsts) |-> flat[firsts[k]]],
        count |-> [t \in Range(flat) |-> Cardinality({i \in 1..Len(flat) : flat[i] = t})]]

AdmitStrict(count) == count > MinOccurrences

\* if count >= min_occurrences
Admit(count) == count >= MinOccurrences

StaticTokenizerEncoder(sample) ==
    LET tokens == CountTokens(sample)
        keep(t) == Admit(tokens.count[t])
    IN [index_to_token |-> ReservedTokens \o SelectSeq(tokens.order, keep)]

\* tokenizer.vocab
Vocab(tokenizer) == tokenizer.index_to_token

\* self.token_to_index.get(token, self.unknown_index); a dict keeps the last
\* index written for a key
TokenToIndex(tokenizer, t) ==
    LET hits == {i \in DOMAIN tokenizer.index_to_token : tokenizer.index_to_token[i] = t}
    IN IF hits = {} THEN UnknownIndex
       ELSE (CHOOSE i \in hits : \A j \in hits : j <= i) - 1

EncodeNoEos(tokenizer, s) ==
    [i \in 1..(Len(s) + 1) |-> TokenToIndex(tokenizer, Tokenize(s)[i])]

\* tokenizer.encode(y), append_eos=True
Encode(tokenizer, s) ==
    Append([i \in 1..(Len(s) + 1) |-> TokenToIndex(tokenizer, Tokenize(s)[i])], EosIndex)

\* tokenizer.decode(ys[i])
Decode(tokenizer, encoded) ==
    JoinSpace([i \in 1..Len(encoded) |-> tokenizer.index_to_token[encoded[i] + 1]])

(***************************************************************************)
(* Tensors.  A float is a fraction [num, den] in lowest terms with         *)
(* den >= 0; den = 0 is what IEEE division by zero gives: num = 1 is inf,  *)
(* num = -1 is -inf, num = 0 is nan.                                       *)
(***************************************************************************)
Abs(a) == IF a < 0 THEN -a ELSE a

RECURSIVE GCD(_, _)
GCD(a, b) == IF b = 0 THEN a ELSE GCD(b, a % b)

Float(a) == [num |-> a, den |-> 1]

Sign(a) == IF a > 0 THEN 1 ELSE IF a < 0 THEN -1 ELSE 0

\* a / b on float tensors
Div(a, b) ==
    IF b = 0 THEN [num |-> Sign(a), den |-> 0]
    ELSE LET g == GCD(Abs(a), Abs(b))
             s == IF b < 0 THEN -1 ELSE 1
         IN [num |-> s * (a \div g), den |-> s * (b \div g)]

\* The stored feature matrix of an utterance: u.n frames of width w
Features(u, w) ==
    [t \in 1..u.n |-> [j \in 1..w |-> u.base + u.slope * ((t - 1) * w + (j - 1))]]

\* A statistics vector (mean or std) is kept as its width, its first entry
\* and the value of all its other entries; At(v, j) is its entry j
At(v, j) == IF j = 1 THEN v.first ELSE v.fill

Vec(w, x) == [width |-> w, first |-> x, fill |-> x]

VecZeroFirst(w, x) == [width |-> w, first |-> 0, fill |-> x]

\* (x - mean) / std, mean and std broadcast over the frames
Normalize(x, mean, std) ==
    [t \in 1..Len(x) |-> [j \in 1..Len(x[t]) |-> Div(x[t][j] - At(mean, j), At(std, j))]]

KeepAllFrames(x) == x

\* x[:(x.shape[0]//3)*3]
Truncate(x) == SubSeq(x, 1, (Len(x) \div StackFactor) * StackFactor)

\* .view(-1, 3*80) of a contiguous tensor; ok is FALSE where torch raises
\* (no element, so that -1 is ambiguous, or a size that 240 does not divide)
View(x, width) ==
    LET flat == Concat(x)
        size == Len(flat)
    IN IF size = 0 \/ size % width # 0 THEN [ok |-> FALSE, rows |-> <<>>]
       ELSE [ok |-> TRUE,
             rows |-> [r \in 1..(size \div width) |->
                          SubSeq(flat, (r - 1) * width + 1, r * width)]]

\* x[:(x.shape[0]//3)*3].view(-1,3*80)
Fold(x) == View(Truncate(x), StackFactor * NumFeatures)

LengthsSorted(xs) ==
    LET n == Len(xs)
        lens == [i \in 1..n |-> Len(xs[i])]
        rank(i) == Cardinality({j \in 1..n : lens[j] > lens[i] \/ (lens[j] = lens[i] /\ j < i)}) + 1
    IN [k \in 1..n |-> lens[CHOOSE i \in 1..n : rank(i) = k]]

\* torch.tensor([x.shape[0] for x in xs])
Lengths(xs) == [i \in 1..Len(xs) |-> Len(xs[i])]

\* rnn_utils.pad_sequence(seqs, batch_first=True): right-pad with padding_value 0
PadSequence(seqs, zero) ==
    LET m == MaxOf([i \in 1..Len(seqs) |-> Len(seqs[i])])
    IN [i \in 1..Len(seqs) |-> seqs[i] \o Repeat(zero, m - Len(seqs[i]))]

Failure(kind) == [status |-> kind, xs |-> <<>>, xlens |-> <<>>, ys |-> <<>>]

\* AISHELL.generateBatch(batch, mean, std, tokenizer); batch is a list of
\* utterances whose features were fetched, w their feature width
GenerateBatch(batch, w, mean, std, tokenizer) ==
    IF batch = <<>> THEN Failure("ValueError")       \* xs, ys = zip(*batch)
    ELSE
    LET normed == [i \in 1..Len(batch) |-> Normalize(Features(batch[i], w), mean, std)]
        folded == [i \in 1..Len(batch) |-> Fold(normed[i])]
        rows == [i \in 1..Len(batch) |-> folded[i].rows]
    IN IF \E i \in 1..Len(batch) : ~folded[i].ok
       THEN Failure("RuntimeError")
       ELSE [status |-> "ok",
             xs |-> PadSequence(rows, Repeat(Float(0), StackFactor * NumFeatures)),
             xlens |-> Lengths(rows),
             ys |-> PadSequence([i \in 1..Len(batch) |-> Encode(tokenizer, batch[i].label)],
                                PaddingIndex)]

(***************************************************************************)
(* The dataset root: the three partitions, the feature width of the stored *)
(* matrices and the statistics blob.  An utterance is its label, its frame *)
(* count n, the two numbers its feature values are made of, and whether    *)
(* torch.load of its feature file succeeds.                                *)
(***************************************************************************)
Utt(label, n, base, slope, ok) ==
    [label |-> label, n |-> n, base |-> base, slope |-> slope, ok |-> ok]

\* data_utils.parse_partition(root, split), in the manifest's order
ParsePartition(r, split) == r.parts[split]

\* statistics['xlens'], per train utterance
XlensTrain(r) == [i \in 1..Len(r.parts["train"]) |-> r.parts["train"][i].n]

LabelsOf(data) == [i \in 1..Len(data) |-> data[i].label]

VocabSampleOfSplit(data_train, data) == LabelsOf(data)

\* [p[1] for p in data_train]
VocabSample(data_train, data) == LabelsOf(data_train)

\* load(root, split, batch_size, workers): what the loader and tokenizer hold
LoadResult(r, split, batch_size, workers) ==
    LET data_train == ParsePartition(r, "train")
        data == IF split = "train" THEN data_train ELSE ParsePartition(r, split)
    IN [split |-> split,
        data |-> data,
        width |-> r.width,
        mean |-> r.mean,
        std |-> r.std,
        xlens_train |-> XlensTrain(r),
        tokenizer |-> StaticTokenizerEncoder(VocabSample(data_train, data)),
        batch_size |-> batch_size,
        workers |-> workers,
        bucketed |-> (split = "train")]

CodecIdle == [pc |-> "idle", split |-> "train", label |-> <<>>, encoded |-> <<>>, decoded |-> <<>>]

CollateIdle == [pc |-> "idle", split |-> "train", batch |-> <<>>, out |-> Failure("none")]

EpochIdle == [pc |-> "idle", split |-> "train"]

ProcIdle == [pc |-> "idle", stdout |-> <<>>, exit |-> -1]

(***************************************************************************)
(* The samplers.  Dataset indices are 0..N-1; a sampler iterator is        *)
(* [perm, pending]: what RandomSampler has not handed out yet and the      *)
(* batches of the current bucket not yet yielded.                          *)
(***************************************************************************)
\* SortedSampler(bucket, sort_key): the positions of bucket, sorted (stably) by key
SortedSampler(bucket, key) ==
    LET n == Len(bucket)
        before(j, i) == key[bucket[j] + 1] < key[bucket[i] + 1]
                           \/ (key[bucket[j] + 1] = key[bucket[i] + 1] /\ j < i)
        rank(i) == Cardinality({j \in 1..n : before(j, i)}) + 1
    IN [k \in 1..n |-> CHOOSE i \in 1..n : rank(i) = k]

BatchSamplerDropLast(s, batch_size) ==
    [k \in 1..(Len(s) \div batch_size) |->
        SubSeq(s, (k - 1) * batch_size + 1, k * batch_size)]

\* list(BatchSampler(s, batch_size, drop_last=False))
BatchSampler(s, batch_size) ==
    [k \in 1..((Len(s) + batch_size - 1) \div batch_size) |->
        SubSeq(s, (k - 1) * batch_size + 1, Min(k * batch_size, Len(s)))]

\* BucketBatchSampler: the size of a bucket
BucketSize(l) == Min(l.batch_size * BucketSizeMultiplier, Len(l.data))

\* The batches of one bucket, before SubsetRandomSampler shuffles them
BucketBatches(l, bucket) ==
    LET sorted == SortedSampler(bucket, l.xlens_train)
        batches == BatchSampler(sorted, l.batch_size)
    IN [k \in 1..Len(batches) |->
           [m \in 1..Len(batches[k]) |-> bucket[batches[k][m]]]]

NextBucket(l, st) == SubSeq(st.perm, 1, Min(BucketSize(l), Len(st.perm)))

\* The orders SubsetRandomSampler may draw when the next call opens a bucket
ShuffleChoices(l, st) ==
    IF l.bucketed /\ st.pending = <<>> /\ st.perm # <<>>
    THEN Perms(1..Len(BucketBatches(l, NextBucket(l, st))))
    ELSE {<<>>}

\* next(iter(batch_sampler)): the next index group, or done (StopIteration).
\* A bucket that yields no batch is passed over.
RECURSIVE SamplerNext(_, _, _)
SamplerNext(l, st, order) ==
    IF l.bucketed /\ st.pending # <<>>
    THEN [done |-> FALSE, group |-> Head(st.pending),
          state |-> [st EXCEPT !.pending = Tail(@)]]
    ELSE IF st.perm = <<>>
    THEN [done |-> TRUE, group |-> <<>>, state |-> st]
    ELSE IF l.bucketed
    THEN LET bucket == NextBucket(l, st)
             batches == BucketBatches(l, bucket)
             shuffled == [k \in 1..Len(batches) |-> batches[order[k]]]
             rest == SubSeq(st.perm, Len(bucket) + 1, Len(st.perm))
         IN IF batches = <<>>
            THEN SamplerNext(l, [perm |-> rest, pending |-> <<>>], order)
            ELSE [done |-> FALSE, group |-> Head(shuffled),
                  state |-> [perm |-> rest, pending |-> Tail(shuffled)]]
    ELSE \* DataLoader(batch_size, shuffle=True): BatchSampler(RandomSampler, batch_size, False)
         LET k == Min(l.batch_size, Len(st.perm))
         IN [done |-> FALSE, group |-> SubSeq(st.perm, 1, k),
             state |-> [perm |-> SubSeq(st.perm, k + 1, Len(st.perm)), pending |-> <<>>]]

\* RandomSampler(dataset): a permutation of the dataset's indices
RandomOrders(l) == Perms(0..(Len(l.data) - 1))

(***************************************************************************)
(* Actions.                                                                *)
(***************************************************************************)
\* load(root, split, batch_size, workers)
LoadSplit(split, batch_size, workers) ==
    /\ split \in Splits                   \* assert split in ['train', 'dev', 'test']
    /\ split \notin DOMAIN loaded
    /\ Len(ParsePartition(root, split)) > 0  \* the samplers reject an empty dataset
    /\ loaded' = [s \in DOMAIN loaded \cup {split} |->
                    IF s = split THEN LoadResult(root, split, batch_size, workers)
                    ELSE loaded[s]]
    /\ UNCHANGED <<root, codec, collate, epoch, proc>>

\* tokenizer.encode(y) on the tokenizer load(split) returned
EncodeLabel(split, s) ==
    /\ split \in DOMAIN loaded
    /\ codec' = [pc |-> "encoded", split |-> split, label |-> s,
                 encoded |-> Encode(loaded[split].tokenizer, s), decoded |-> <<>>]
    /\ UNCHANGED <<root, loaded, collate, epoch, proc>>

\* tokenizer.decode(...) of what was encoded
DecodeLast ==
    /\ codec.pc = "encoded"
    /\ codec' = [codec EXCEPT !.pc = "decoded",
                              !.decoded = Decode(loaded[codec.split].tokenizer, codec.encoded)]
    /\ UNCHANGED <<root, loaded, collate, epoch, proc>>

\* collate_fn=lambda batch: dataset.generateBatch(batch, mean, std, tokenizer)
Collate ==
    /\ collate.pc = "idle"
    /\ collate.split \in DOMAIN loaded
    /\ LET l == loaded[collate.split]
       IN collate' = [collate EXCEPT
                        !.pc = "done",
                        !.out = GenerateBatch(collate.batch, l.width, l.mean, l.std, l.tokenizer)]
    /\ UNCHANGED <<root, loaded, codec, epoch, proc>>

(***************************************************************************)
(* Inputs.                                                                 *)
(***************************************************************************)
LabelAB == <<"a", "b">>
LabelBA == <<"b", "a">>
LabelC == <<"c">>
LabelA == <<"a">>
LabelEmpty == <<>>

TrainLabels == {LabelAB, LabelBA, LabelC, LabelA, LabelEmpty}

QueryLabels == {LabelAB, LabelC, LabelEmpty, <<"c", "a">>, <<"d">>}

Chars == {"a", "b", "c", "d"}

PlainUtt(label) == Utt(label, StackFactor, 1, 0, TRUE)

\* A corpus of two runs of equal labels, as in ["ab"]*5 + ["c"]
Corpus(la, na, lb, nb) == Repeat(PlainUtt(la), na) \o Repeat(PlainUtt(lb), nb)

RootOf(train, dev, test, w, mean, std) ==
    [parts |-> [s \in Splits |-> IF s = "train" THEN train ELSE IF s = "dev" THEN dev ELSE test],
     width |-> w, mean |-> mean, std |-> std]

(***************************************************************************)
(* Specification of the vocabulary: load, then encode and decode labels.   *)
(***************************************************************************)
InitVocab ==
    /\ \E la \in TrainLabels, lb \in TrainLabels, na \in 1..MaxRep, nb \in 0..MaxRep :
          root = RootOf(Corpus(la, na, lb, nb), Corpus(la, 1, lb, 0), Corpus(la, 1, lb, 0),
                        NumFeatures, Vec(NumFeatures, 0), Vec(NumFeatures, 1))
    /\ loaded = <<>>
    /\ codec = CodecIdle
    /\ collate = CollateIdle
    /\ epoch = EpochIdle
    /\ proc = ProcIdle

NextVocab ==
    \/ LoadSplit("train", 1, 0)
    \/ \E s \in QueryLabels : EncodeLabel("train", s)
    \/ DecodeLast

SpecVocab == InitVocab /\ [][NextVocab]_vars

TrainLabelSeq == LabelsOf(root.parts["train"])

\* How often the character c occurs in the train label strings
Occurrences(c) ==
    Cardinality({p \in (1..Len(TrainLabelSeq)) \X
                         (1..MaxOf([i \in 1..Len(TrainLabelSeq) |-> Len(TrainLabelSeq[i])])) :
                    p[2] <= Len(TrainLabelSeq[p[1]]) /\ TrainLabelSeq[p[1]][p[2]] = c})

TrainTokenizer == loaded["train"].tokenizer

InVocab(tokenizer, t) == t \in Range(Vocab(tokenizer))

AllAdmitted(tokenizer, s) == \A k \in 1..Len(s) : InVocab(tokenizer, <<s[k]>>)

\* C5 as stated: for a label string s made of admitted tokens only,
\* decode(encode(s)) = s, with no start, end or pad marker in the result.
C5_RoundTripAsClaimed ==
    (codec.pc = "decoded" /\ AllAdmitted(loaded[codec.split].tokenizer, codec.label))
        => codec.decoded = codec.label

\* C5 amended: for a label string s made of admitted tokens only,
\* decode(encode(s)) is the start token ('<unk>' in its place when the train
\* set holds fewer than 5 labels), the characters of s and the end token
\* '</s>', joined by single spaces; the markers are not dropped.
C5_RoundTripAmended ==
    (codec.pc = "decoded" /\ AllAdmitted(loaded[codec.split].tokenizer, codec.label))
        => codec.decoded =
              JoinSpace(<<IF Len(TrainLabelSeq) >= MinOccurrences THEN SOS ELSE UNK>>
                        \o [k \in 1..Len(codec.label) |-> <<codec.label[k]>>]
                        \o <<EOS>>)

C5_Witness ==
    /\ codec.pc = "decoded"
    /\ codec.label = LabelAB
    /\ AllAdmitted(loaded[codec.split].tokenizer, codec.label)
    /\ codec.decoded = <<"<", "s", ">", " ", "a", " ", "b", " ", "<", "/", "s", ">">>

\* C6: a character (and the start token, counted once per label) is in the
\* vocabulary iff it occurs at least 5 times in the train labels; every
\* occurrence of a character that occurs fewer than 5 times is encoded as
\* the '<unk>' index, and an admitted one as an index of its own.
C6_FrequencyPruning ==
    "train" \in DOMAIN loaded =>
        /\ \A c \in Chars : InVocab(TrainTokenizer, <<c>>) <=> Occurrences(c) >= 5
        /\ InVocab(TrainTokenizer, SOS) <=> Len(TrainLabelSeq) >= 5
        /\ codec.pc # "idle" =>
              /\ Len(codec.encoded) = Len(codec.label) + 2
              /\ \A k \in 1..Len(codec.label) :
                    IF Occurrences(codec.label[k]) < 5
                    THEN codec.encoded[k + 1] = UnknownIndex
                    ELSE /\ codec.encoded[k + 1] > EosIndex
                         /\ Vocab(TrainTokenizer)[codec.encoded[k + 1] + 1] = <<codec.label[k]>>

C6_Witness ==
    /\ root.parts["train"] = Corpus(LabelAB, 5, LabelC, 1)
    /\ "train" \in DOMAIN loaded
    /\ InVocab(TrainTokenizer, <<"a">>)
    /\ InVocab(TrainTokenizer, <<"b">>)
    /\ ~InVocab(TrainTokenizer, <<"c">>)
    /\ codec.pc = "encoded"
    /\ codec.label = LabelC
    /\ codec.encoded = <<3, UnknownIndex, EosIndex>>

(***************************************************************************)
(* Specification of the splits: load() of each split of one root.          *)
(***************************************************************************)
InitSplit ==
    /\ \E la \in {LabelAB, LabelC}, ld \in TrainLabels, lt \in {LabelC, LabelA},
          na \in 1..MaxRep, nd \in 1..MaxRep, nt \in 1..MaxRep :
          root = RootOf(Corpus(la, na, la, 0), Corpus(ld, nd, ld, 0), Corpus(lt, nt, lt, 0),
                        NumFeatures, Vec(NumFeatures, 0), Vec(NumFeatures, 1))
    /\ loaded = <<>>
    /\ codec = CodecIdle
    /\ collate = CollateIdle
    /\ epoch = EpochIdle
    /\ proc = ProcIdle

NextSplit == \E split \in Splits : LoadSplit(split, 1, 0)

SpecSplit == InitSplit /\ [][NextSplit]_vars

\* C10: whatever split is requested, the vocabulary holds the reserved
\* tokens and tokens of the train labels only, and the loader's mean and
\* std are those of the statistics blob: load() of two splits of one root
\* returns the same index-to-token mapping and the same mean and std.
C10_SplitIndependence ==
    \A s1 \in DOMAIN loaded :
        /\ \A k \in (Len(ReservedTokens) + 1)..Len(Vocab(loaded[s1].tokenizer)) :
              LET t == Vocab(loaded[s1].tokenizer)[k]
              IN t = SOS \/ (Len(t) = 1 /\ Occurrences(t[1]) >= 5)
        /\ loaded[s1].mean = root.mean /\ loaded[s1].std = root.std
        /\ \A s2 \in DOMAIN loaded :
              /\ loaded[s1].tokenizer = loaded[s2].tokenizer
              /\ loaded[s1].mean = loaded[s2].mean
              /\ loaded[s1].std = loaded[s2].std

C10_Witness ==
    /\ DOMAIN loaded = Splits
    /\ root.parts["train"] = Corpus(LabelAB, 5, LabelAB, 0)
    /\ root.parts["dev"] = Corpus(LabelC, 6, LabelC, 0)
    /\ root.parts["test"] = Corpus(LabelA, 2, LabelA, 0)
    /\ ~InVocab(loaded["dev"].tokenizer, <<"c">>)

(***************************************************************************)
(* Specification of the batch assembler: load, then generateBatch on a     *)
(* list of fetched (features, label) pairs.                                *)
(***************************************************************************)
Widths == {2, NumFeatures \div 2, NumFeatures}

\* The statistics blobs tried: (mean, std) as vectors of the data's width
StatKinds(w) == {<<Vec(w, 0), Vec(w, 1)>>, <<Vec(w, 1), Vec(w, 2)>>, <<Vec(w, 0), VecZeroFirst(w, 1)>>}

\* One stored utterance per frame count: constant frames of value 1 labelled
\* "ab" for an odd count, frames of distinct values labelled "c" for an even one
Example(n) ==
    IF n % 2 = 1 THEN Utt(LabelAB, n, 1, 0, TRUE) ELSE Utt(LabelC, n, 2, 1, TRUE)

Examples == {Example(n) : n \in 0..MaxFrames}

Batches == UNION {[1..k -> Examples] : k \in 0..MaxB}

InitBatch ==
    /\ \E w \in Widths : \E st \in StatKinds(w) :
          root = RootOf(Corpus(LabelAB, 5, LabelC, 1), Corpus(LabelC, 1, LabelC, 0),
                        Corpus(LabelC, 1, LabelC, 0), w, st[1], st[2])
    /\ \E batch \in Batches :
          collate = [pc |-> "idle", split |-> "train", batch |-> batch,
                     out |-> Failure("none")]
    /\ loaded = <<>>
    /\ codec = CodecIdle
    /\ epoch = EpochIdle
    /\ proc = ProcIdle

NextBatch ==
    \/ LoadSplit(collate.split, MaxB, 0)
    \/ Collate

SpecBatch == InitBatch /\ [][NextBatch]_vars

HasZeroStd == \E j \in 1..root.std.width : At(root.std, j) = 0

\* Element j of row r of the folded matrix of utterance u of width w, from
\* the stored values: frame 3(r-1) + 1 + (j-1) div w, column 1 + (j-1) mod w
FoldedElement(u, w, r, j) ==
    LET t == StackFactor * (r - 1) + ((j - 1) \div w) + 1
        c == ((j - 1) % w) + 1
    IN Div((u.base + u.slope * ((t - 1) * w + (c - 1))) - At(root.mean, c), At(root.std, c))

FoldedAsSpecified(u, w, i) ==
    /\ collate.out.xlens[i] = u.n \div 3
    /\ \A r \in 1..(u.n \div 3) :
          /\ Len(collate.out.xs[i][r]) = 3 * w
          /\ \A j \in 1..(3 * w) : collate.out.xs[i][r][j] = FoldedElement(u, w, r, j)

C4_Alignment ==
    (collate.pc = "done" /\ collate.out.status = "ok") =>
        LET b == collate.batch
            o == collate.out
            l == loaded[collate.split]
            own(i) == Fold(Normalize(Features(b[i], l.width), l.mean, l.std)).rows
            enc(i) == Encode(l.tokenizer, b[i].label)
        IN /\ Len(o.xs) = Len(b) /\ Len(o.xlens) = Len(b) /\ Len(o.ys) = Len(b)
           /\ \A i \in 1..Len(b) :
                 /\ o.xlens[i] = Len(own(i))
                 /\ o.xlens[i] <= Len(o.xs[i])
                 /\ SubSeq(o.xs[i], 1, o.xlens[i]) = own(i)
                 /\ \A r \in (o.xlens[i] + 1)..Len(o.xs[i]) :
                       o.xs[i][r] = Repeat(Float(0), StackFactor * NumFeatures)
                 /\ SubSeq(o.ys[i], 1, Len(enc(i))) = enc(i)
                 /\ \A k \in (Len(enc(i)) + 1)..Len(o.ys[i]) : o.ys[i][k] = PaddingIndex
                 /\ \A k \in 1..Len(b) :
                       Len(o.xs[k]) = Len(o.xs[i]) /\ Len(o.ys[k]) = Len(o.ys[i])

C4_Witness ==
    /\ collate.pc = "done"
    /\ collate.out.status = "ok"
    /\ Len(collate.batch) = 2
    /\ collate.batch[1].n = 4 /\ collate.batch[1].label = LabelC
    /\ collate.batch[2].n = 9 /\ collate.batch[2].label = LabelAB
    /\ collate.out.xlens = <<1, 3>>
    /\ collate.out.ys = <<<<3, UnknownIndex, EosIndex, PaddingIndex>>, <<3, 4, 5, EosIndex>>>>

\* C7: with a zero entry in the loaded std, loading fails before any batch
\* is assembled, so no batch is ever produced from such a std.
C7_ZeroStdRejected ==
    HasZeroStd => (DOMAIN loaded = {} /\ collate.out.status # "ok")

(***************************************************************************)
(* Specification of the bucketed sampler: one epoch of the batch sampler   *)
(* load() builds for the train split.                                      *)
(***************************************************************************)
\* iter(batch_sampler)
SamplerIter ==
    /\ epoch.pc = "idle"
    /\ epoch.split \in DOMAIN loaded
    /\ \E perm \in RandomOrders(loaded[epoch.split]) :
          epoch' = [pc |-> "iterating", split |-> epoch.split,
                    sampler |-> [perm |-> perm, pending |-> <<>>], groups |-> <<>>]
    /\ UNCHANGED <<root, loaded, codec, collate, proc>>

\* next() on the batch sampler's iterator
SamplerStep ==
    /\ epoch.pc = "iterating"
    /\ LET l == loaded[epoch.split]
       IN \E order \in ShuffleChoices(l, epoch.sampler) :
             LET r == SamplerNext(l, epoch.sampler, order)
             IN epoch' = IF r.done THEN [epoch EXCEPT !.pc = "exhausted"]
                         ELSE [epoch EXCEPT !.sampler = r.state,
                                            !.groups = Append(@, r.group)]
    /\ UNCHANGED <<root, loaded, codec, collate, proc>>

FrameChoices == {StackFactor, 2 * StackFactor}

InitSampler ==
    /\ \E n \in 1..MaxN : \E frames \in [1..n -> FrameChoices] :
          LET data == [i \in 1..n |-> Utt(LabelAB, frames[i], 1, 0, TRUE)]
          IN root = RootOf(data, data, data,
                           NumFeatures, Vec(NumFeatures, 0), Vec(NumFeatures, 1))
    /\ loaded = <<>>
    /\ codec = CodecIdle
    /\ collate = CollateIdle
    /\ epoch = EpochIdle
    /\ proc = ProcIdle

NextSampler ==
    \/ \E bs \in 1..(MaxB + 1) : LoadSplit("train", bs, 0)
    \/ SamplerIter
    \/ SamplerStep

SpecSampler == InitSampler /\ [][NextSampler]_vars

Elements(groups) == UNION {Range(groups[k]) : k \in 1..Len(groups)}

\* C1: in an epoch of the train split's sampler no yielded batch is empty or
\* holds more than batch_size indices, no index is yielded twice, and when
\* the epoch ends every index 0..N-1 has been yielded; a batch smaller than
\* batch_size occurs only when batch_size does not divide N, and only once.
C1_BucketedSamplerPartition ==
    epoch.pc \in {"iterating", "exhausted"} =>
        LET l == loaded[epoch.split]
            g == epoch.groups
            N == Len(l.data)
            B == l.batch_size
            small == {k \in 1..Len(g) : Len(g[k]) < B}
        IN /\ \A k \in 1..Len(g) :
                 /\ Len(g[k]) >= 1 /\ Len(g[k]) <= B
                 /\ Range(g[k]) \subseteq 0..(N - 1)
                 /\ \A m1, m2 \in 1..Len(g[k]) : m1 # m2 => g[k][m1] # g[k][m2]
                 /\ \A k2 \in 1..Len(g) : k2 # k => Range(g[k]) \cap Range(g[k2]) = {}
           /\ Cardinality(small) <= 1
           /\ small # {} => N % B # 0
           /\ epoch.pc = "exhausted" =>
                 /\ Elements(g) = 0..(N - 1)
                 /\ Len(g) = (N + B - 1) \div B

C1_Witness ==
    /\ epoch.pc = "exhausted"
    /\ Len(loaded["train"].data) = 3
    /\ loaded["train"].batch_size = 2
    /\ Len(epoch.groups) = 2
    /\ Len(epoch.groups[1]) = 1
    /\ Len(epoch.groups[2]) = 2

(***************************************************************************)
(* Specification of the loader: one epoch of `for batch in loader`, in the *)
(* consumer's process (num_workers = 0) or with a pool of fetch workers.   *)
(* The iterator is                                                         *)
(*   sampler        the batch sampler's iterator                           *)
(*   groups         the index groups handed out so far, in that order      *)
(*   send_idx, rcvd_idx   the next task to dispatch, the next to deliver   *)
(*   next_worker    the worker the next task goes to (round robin)         *)
(*   index_queues   per worker, the tasks <<idx, group>> it has to do      *)
(*   data_queue     the results [idx, data] the workers have put           *)
(*   stash          results taken from data_queue ahead of their turn      *)
(*   arrivals       the idx of the results, in the order they were taken   *)
(*   fetches        per task, how often it was fetched                     *)
(*   consumed       the batches the loop body got: [idx, group, data]      *)
(***************************************************************************)
FetchSkipFailed(l, group) ==
    LET okPos == SelectSeq([m \in 1..Len(group) |-> m], LAMBDA m : l.data[group[m] + 1].ok)
    IN GenerateBatch([k \in 1..Len(okPos) |-> l.data[group[okPos[k]] + 1]],
                     l.width, l.mean, l.std, l.tokenizer)

\* collate_fn([dataset[i] for i in group]); __getitem__ raises when torch.load
\* of the feature file fails
Fetch(l, group) ==
    IF \E m \in 1..Len(group) : ~l.data[group[m] + 1].ok
    THEN Failure("FileNotFoundError")
    ELSE GenerateBatch([m \in 1..Len(group) |-> l.data[group[m] + 1]],
                       l.width, l.mean, l.std, l.tokenizer)

AnyOrder(idx, rcvd_idx) == TRUE

\* if idx != self._rcvd_idx: keep the result for later
InOrder(idx, rcvd_idx) == idx = rcvd_idx

\* _try_put_index(): hand the sampler's next index group to the next worker
TryPutIndex(l, it, order) ==
    LET r == SamplerNext(l, it.sampler, order)
    IN IF r.done THEN it
       ELSE [it EXCEPT !.sampler = r.state,
                       !.groups = Append(@, r.group),
                       !.index_queues[it.next_worker] = Append(@, <<it.send_idx, r.group>>),
                       !.next_worker = (it.next_worker % l.workers) + 1,
                       !.send_idx = @ + 1]

RECURSIVE Prime(_, _, _, _)
\* for _ in range(prefetch_factor * num_workers): self._try_put_index()
Prime(l, it, order, k) ==
    IF k = 0 THEN it ELSE Prime(l, TryPutIndex(l, it, order), order, k - 1)

\* _process_data(data): the batch is next in turn
ProcessData(l, it, idx, data, order) ==
    LET put == TryPutIndex(l, [it EXCEPT !.rcvd_idx = @ + 1], order)
    IN IF data.status # "ok"
       THEN [put EXCEPT !.pc = "raised"]             \* data.reraise()
       ELSE [put EXCEPT !.consumed =
                Append(@, [idx |-> idx, group |-> it.groups[idx + 1], data |-> data])]

\* iter(loader)
IterStart ==
    /\ epoch.pc = "idle"
    /\ epoch.split \in DOMAIN loaded
    /\ LET l == loaded[epoch.split]
       IN \E perm \in RandomOrders(l) :
             LET it == [pc |-> "iterating", split |-> epoch.split,
                        sampler |-> [perm |-> perm, pending |-> <<>>],
                        groups |-> <<>>, send_idx |-> 0, rcvd_idx |-> 0, next_worker |-> 1,
                        index_queues |-> [w \in 1..l.workers |-> <<>>],
                        data_queue |-> <<>>, stash |-> <<>>, arrivals |-> <<>>,
                        fetches |-> <<>>, consumed |-> <<>>]
             IN \E order \in ShuffleChoices(l, it.sampler) :
                   epoch' = Prime(l, it, order, PrefetchFactor * l.workers)
    /\ UNCHANGED <<root, loaded, codec, collate, proc>>

\* next() of the single-process iterator: index = next(sampler); fetch(index)
NextSingle ==
    /\ epoch.pc = "iterating"
    /\ LET l == loaded[epoch.split]
       IN /\ l.workers = 0
          /\ \E order \in ShuffleChoices(l, epoch.sampler) :
                LET r == SamplerNext(l, epoch.sampler, order)
                    data == Fetch(l, r.group)
                    idx == epoch.send_idx
                    it == [epoch EXCEPT !.sampler = r.state,
                                        !.groups = Append(@, r.group),
                                        !.send_idx = @ + 1,
                                        !.rcvd_idx = @ + 1,
                                        !.arrivals = Append(@, idx),
                                        !.fetches = Append(@, 1)]
                IN epoch' = IF r.done THEN [epoch EXCEPT !.pc = "exhausted"]
                            ELSE IF data.status # "ok" THEN [it EXCEPT !.pc = "raised"]
                            ELSE [it EXCEPT !.consumed =
                                     Append(@, [idx |-> idx, group |-> r.group, data |-> data])]
    /\ UNCHANGED <<root, loaded, codec, collate, proc>>

\* A worker's loop body: take a task, fetch it (an exception is wrapped and
\* sent as the result), put the result
WorkerStep(w) ==
    /\ epoch.pc = "iterating"
    /\ LET l == loaded[epoch.split]
       IN /\ w \in 1..l.workers
          /\ epoch.index_queues[w] # <<>>
          /\ LET task == Head(epoch.index_queues[w])
             IN epoch' = [epoch EXCEPT
                            !.index_queues[w] = Tail(@),
                            !.fetches = [i \in DOMAIN @ \cup {task[1] + 1} |->
                                            IF i = task[1] + 1
                                            THEN (IF i \in DOMAIN @ THEN @[i] ELSE 0) + 1
                                            ELSE @[i]],
                            !.data_queue = Append(@, [idx |-> task[1],
                                                      data |-> Fetch(l, task[2])])]
    /\ UNCHANGED <<root, loaded, codec, collate, proc>>

\* _next_data(): the batch in turn was taken earlier
ConsumeStashed ==
    /\ epoch.pc = "iterating"
    /\ LET l == loaded[epoch.split]
       IN /\ l.workers > 0
          /\ epoch.rcvd_idx \in DOMAIN epoch.stash
          /\ \E order \in ShuffleChoices(l, epoch.sampler) :
                epoch' = ProcessData(l,
                            [epoch EXCEPT !.stash = [i \in DOMAIN @ \ {epoch.rcvd_idx} |-> @[i]]],
                            epoch.rcvd_idx, epoch.stash[epoch.rcvd_idx], order)
    /\ UNCHANGED <<root, loaded, codec, collate, proc>>

\* _next_data(): take a result from data_queue; deliver it if it is in turn
ConsumeQueue ==
    /\ epoch.pc = "iterating"
    /\ LET l == loaded[epoch.split]
       IN /\ l.workers > 0
          /\ epoch.rcvd_idx \notin DOMAIN epoch.stash
          /\ epoch.data_queue # <<>>
          /\ LET got == Head(epoch.data_queue)
                 it == [epoch EXCEPT !.data_queue = Tail(@),
                                     !.arrivals = Append(@, got.idx)]
             IN IF InOrder(got.idx, epoch.rcvd_idx)
                THEN \E order \in ShuffleChoices(l, epoch.sampler) :
                        epoch' = ProcessData(l, it, got.idx, got.data, order)
                ELSE epoch' = [it EXCEPT !.stash =
                                  [i \in DOMAIN @ \cup {got.idx} |->
                                      IF i = got.idx THEN got.data ELSE @[i]]]
    /\ UNCHANGED <<root, loaded, codec, collate, proc>>

\* _next_data(): no task is outstanding: StopIteration
ConsumeEnd ==
    /\ epoch.pc = "iterating"
    /\ loaded[epoch.split].workers > 0
    /\ epoch.rcvd_idx = epoch.send_idx
    /\ epoch' = [epoch EXCEPT !.pc = "exhausted"]
    /\ UNCHANGED <<root, loaded, codec, collate, proc>>

InitLoader ==
    /\ \E n \in 1..MaxLoaderN : \E bad \in 0..1 :   \* no file fails to load, or the first
          LET data == [i \in 1..n |-> Utt(LabelAB, StackFactor, i, 0, i # bad)]
          IN root = RootOf(data, data, data,
                           NumFeatures, Vec(NumFeatures, 0), Vec(NumFeatures, 1))
    /\ loaded = <<>>
    /\ codec = CodecIdle
    /\ collate = CollateIdle
    /\ \E split \in {"train", "dev"} : epoch = [pc |-> "idle", split |-> split]
    /\ proc = ProcIdle

NextLoader ==
    \/ \E bs \in 1..MaxB, wk \in 0..MaxWorkers : LoadSplit(epoch.split, bs, wk)
    \/ IterStart
    \/ NextSingle
    \/ \E w \in 1..MaxWorkers : WorkerStep(w)
    \/ ConsumeStashed
    \/ ConsumeQueue
    \/ ConsumeEnd

SpecLoader == InitLoader /\ [][NextLoader]_vars

HasFailure(l, group) == \E m \in 1..Len(group) : ~l.data[group[m] + 1].ok

\* C2: with fetch workers, the batches reach the loop body in the order
\* their index groups were dispatched, whatever the order the workers
\* finish in: the k-th batch consumed is the batch of the k-th group.
C2_InOrderDelivery ==
    (epoch.pc \in {"iterating", "raised", "exhausted"} /\ loaded[epoch.split].workers > 0) =>
        \A k \in 1..Len(epoch.consumed) :
            LET c == epoch.consumed[k]
            IN /\ c.idx = k - 1
               /\ c.group = epoch.groups[k]
               /\ Len(c.data.xs) = Len(c.group)
               /\ \A m \in 1..Len(c.group) : c.data.xs[m][1][1] = Float(c.group[m] + 1)

C2_Witness ==
    /\ epoch.pc \in {"iterating", "exhausted"}
    /\ loaded[epoch.split].workers = 2
    /\ Len(epoch.arrivals) >= 2
    /\ epoch.arrivals[1] = 1
    /\ epoch.arrivals[2] = 0
    /\ Len(epoch.consumed) >= 2

\* C8: when the feature file of an example cannot be loaded, the batch of
\* its index group is never yielded, neither without the example nor in
\* part, no group is fetched twice, and no batch of a later group is
\* yielded: the error is raised in that batch's turn and the epoch ends
\* there, with exactly the batches of the groups before it consumed.
C8_FailurePropagation ==
    epoch.pc \in {"iterating", "raised", "exhausted"} =>
        LET l == loaded[epoch.split]
            g == epoch.groups
        IN /\ \A k \in 1..Len(epoch.consumed) :
                 LET c == epoch.consumed[k]
                 IN /\ c.data.status = "ok"
                    /\ Len(c.data.xs) = Len(c.group)
                    /\ Len(c.data.ys) = Len(c.group)
                    /\ \A j \in 1..(c.idx + 1) : ~HasFailure(l, g[j])
           /\ \A i \in DOMAIN epoch.fetches : epoch.fetches[i] <= 1
           /\ epoch.pc = "raised" =>
                 /\ HasFailure(l, g[epoch.rcvd_idx])
                 /\ Len(epoch.consumed) = epoch.rcvd_idx - 1
           /\ epoch.pc = "exhausted" =>
                 /\ \A i \in 1..Len(l.data) : l.data[i].ok
                 /\ Len(epoch.consumed) = Len(g)

C8_Witness ==
    /\ epoch.pc = "raised"
    /\ loaded[epoch.split].workers = 2
    /\ Len(epoch.consumed) = 1
    /\ DOMAIN epoch.stash # {}
    /\ \A i \in DOMAIN epoch.stash : epoch.stash[i].status = "ok"

(***************************************************************************)
(* Specification of the evaluation entry point, eval.py's main().          *)
(***************************************************************************)
\* The names the module data defines at import
DataModuleNames ==
    {"torch", "glob", "torchaudio", "os", "np", "random", "rnn_utils", "data_utils",
     "tqdm", "Dataset", "DataLoader", "BucketBatchSampler", "StaticTokenizerEncoder",
     "AISHELL", "load", "inspect_data"}

DevLine(p) == [kind |-> "Dev PER of checkpoint", value |-> p.dev_per, at |-> p.ckpt_epoch]

\* eval_utils.get_per is outside this model: the line stands for its value
PerLine(p) == [kind |-> "PER on set", value |-> 0, at |-> 0]

Raise(p, what) == [p EXCEPT !.pc = "exited", !.exit = 1, !.error = what]

\* parse_args(); CUDA_VISIBLE_DEVICES; assert torch.cuda.is_available(); the imports
MainStart ==
    /\ proc.pc = "start"
    /\ proc' = IF ~proc.cuda THEN Raise(proc, "AssertionError")
               ELSE [proc EXCEPT !.pc = "imported"]
    /\ UNCHANGED <<root, loaded, codec, collate, epoch>>

\* info = torch.load(args.ckpt); print the checkpoint's dev PER and epoch
MainRestore ==
    /\ proc.pc = "imported"
    /\ proc' = IF ~proc.ckpt_exists THEN Raise(proc, "FileNotFoundError")
               ELSE [proc EXCEPT !.pc = "restored", !.stdout = Append(@, DevLine(proc))]
    /\ UNCHANGED <<root, loaded, codec, collate, epoch>>

\* data.prepareData(root, split, batch_size); build the model; get_per; print
MainEvaluate ==
    /\ proc.pc = "restored"
    /\ IF "prepareData" \notin DataModuleNames
       THEN proc' = Raise(proc, "AttributeError") /\ UNCHANGED loaded
       ELSE IF proc.split \notin Splits \/ proc.split \in DOMAIN loaded
               \/ Len(ParsePartition(root, proc.split)) = 0
       THEN proc' = Raise(proc, "AssertionError") /\ UNCHANGED loaded
       ELSE /\ loaded' = [s \in DOMAIN loaded \cup {proc.split} |->
                            IF s = proc.split
                            THEN LoadResult(root, proc.split, proc.batch_size, 0)
                            ELSE loaded[s]]
            /\ proc' = [proc EXCEPT !.pc = "exited", !.exit = 0,
                                    !.stdout = Append(@, PerLine(proc))]
    /\ UNCHANGED <<root, codec, collate, epoch>>

InitEval ==
    /\ root = RootOf(Corpus(LabelAB, 5, LabelC, 1), Corpus(LabelC, 1, LabelC, 0),
                     Corpus(LabelC, 1, LabelC, 0),
                     NumFeatures, Vec(NumFeatures, 0), Vec(NumFeatures, 1))
    /\ loaded = <<>>
    /\ codec = CodecIdle
    /\ collate = CollateIdle
    /\ epoch = EpochIdle
    /\ \E split \in Splits \cup {"valid"}, cuda \in BOOLEAN, ckpt_exists \in BOOLEAN,
          dev_per \in 0..MaxPer, ckpt_epoch \in 1..MaxEpochNo, batch_size \in 1..MaxB :
          proc = [pc |-> "start", split |-> split, cuda |-> cuda,
                  ckpt_exists |-> ckpt_exists, dev_per |-> dev_per,
                  ckpt_epoch |-> ckpt_epoch, batch_size |-> batch_size,
                  stdout |-> <<>>, exit |-> -1, error |-> "none"]

NextEval == MainStart \/ MainRestore \/ MainEvaluate

SpecEval == InitEval /\ [][NextEval]_vars

\* C9: with an existing checkpoint, a compute device and a valid split,
\* main() prints the checkpoint's dev error rate and epoch, then the error
\* rate computed on the split, and ends normally.
C9_EvalPrintsBoth ==
    (proc.pc = "exited" /\ proc.ckpt_exists /\ proc.cuda /\ proc.split \in Splits) =>
        /\ proc.exit = 0
        /\ Len(proc.stdout) = 2
        /\ proc.stdout[1] = DevLine(proc)
        /\ proc.stdout[2].kind = "PER on set"

=============================================================================
